---- MODULE Spec2Model ----
(***************************************************************************)
(* Model of core/libdeno/exceptions.cc: the JSON encoding of a V8 message  *)
(* (EncodeMessageAsJSON), and the dispatch of an exception or a message    *)
(* into DenoIsolate::last_exception_ (HandleException,                     *)
(* HandleExceptionMessage).                                                *)
(*                                                                         *)
(* A text (std::string) is a sequence of lexical units: the characters     *)
(* that matter to JSON are one unit each (the double quote, the backslash, *)
(* braces, brackets, colon, comma), a run of blanks is the unit WS, a run  *)
(* of other characters (a word, the decimal digits of a number) is one     *)
(* unit.                                                                   *)
(***************************************************************************)
EXTENDS Integers, Sequences, FiniteSets, TLC

\* ---------------------------------------------------------------- bounds
MaxLen == 2        \* longest message text given to the encoder
MaxFrames == 2     \* deepest captured stack trace
MaxInt == 1        \* largest line or column number
MaxEventLen == 1   \* longest text of a thrown error or delivered message
MaxEvents == 2     \* exception events delivered to one isolate

\* ----------------------------------------------------------------- texts
Q == "\""
BS == "\\"
WS == " "

\* the characters of the texts the engine hands over
Alphabet == {"a", Q, BS}

RECURSIVE TextsUpTo(_)
TextsUpTo(n) ==
  IF n = 0 THEN {<<>>}
  ELSE LET shorter == TextsUpTo(n - 1)
       IN  shorter \cup {Append(t, c) : t \in shorter, c \in Alphabet}

Texts == TextsUpTo(MaxLen)

\* std::string::find(from, pos): the first index >= pos where from occurs,
\* 0 for npos (indices from 1)
RECURSIVE Find(_, _, _)
Find(str, from, pos) ==
  IF pos + Len(from) - 1 > Len(str) THEN 0
  ELSE IF SubSeq(str, pos, pos + Len(from) - 1) = from THEN pos
  ELSE Find(str, from, pos + 1)

\* the loop of ReplaceAll, from position pos on
RECURSIVE ReplaceAllFrom(_, _, _, _)
ReplaceAllFrom(str, from, to, pos) ==
  LET p == Find(str, from, pos)
  IN  IF p = 0 THEN str
      ELSE ReplaceAllFrom(
             SubSeq(str, 1, p - 1) \o to \o SubSeq(str, p + Len(from), Len(str)),
             from, to, p + Len(to))

ReplaceAll(str, from, to) == ReplaceAllFrom(str, from, to, 1)

EscapeString(str) == ReplaceAll(str, <<Q>>, <<BS, Q>>)

\* operator<< of a number, and of (b ? "true" : "false")
Num(n) == <<ToString(n)>>
Bool(b) == IF b THEN <<"true">> ELSE <<"false">>

\* the literal  \"k\":  followed by a blank
Key(k) == <<Q, k, Q, ":", WS>>

\* ------------------------------------------------- the engine's values
\* v8::Maybe<int>
Nothing == [just |-> FALSE, value |-> 0]
Just(v) == [just |-> TRUE, value |-> v]
MaybeInts == {Nothing} \cup {Just(n) : n \in 0..MaxInt}

\* v8::MaybeLocal<v8::String> / v8::Local<v8::String>, possibly empty
EmptyHandle == [empty |-> TRUE, str |-> <<>>]
Handle(t) == [empty |-> FALSE, str |-> t]

\* v8::Local<v8::Value> of GetScriptResourceName: undefined or a string
UndefinedName == [undefined |-> TRUE, str |-> <<>>]
StringName(t) == [undefined |-> FALSE, str |-> t]

\* v8::String::Utf8Value of a value: ToString of it
Utf8Value(v) == IF v.undefined THEN <<"undefined">> ELSE v.str

\* v8::JSON::Stringify of a string quotes it and escapes quote and backslash;
\* of undefined it yields undefined, which the API converts with ToString
JSONQuote(t) ==
  <<Q>> \o ReplaceAll(ReplaceAll(t, <<BS>>, <<BS, BS>>), <<Q>>, <<BS, Q>>) \o <<Q>>

JSONStringify(v) == IF v.undefined THEN <<"undefined">> ELSE JSONQuote(v.str)

\* Maybe<int>::FromJust: the value of a Just; on Nothing V8's API check
\* fails, which aborts the process, or, when the embedder's fatal error
\* handler returns, yields the unset value
Aborted == [abort |-> TRUE, value |-> 0]
Value(v) == [abort |-> FALSE, value |-> v]
FromJust(m) ==
  IF m.just THEN {Value(m.value)}
  ELSE {Aborted} \cup {Value(g) : g \in {0, MaxInt + 1}}

\* ------------------------------------------------- EncodeMessageAsJSON
\* the stream source_line: written when GetSourceLine is not empty
SourceLineJSON(message) ==
  IF ~message.source_line.empty
  THEN Key("sourceLine") \o <<Q>> \o EscapeString(message.source_line.str) \o <<Q, ",">>
  ELSE <<>>

\* the stream line_number: written when GetLineNumber is a Just
LineNumberJSON(message) ==
  IF message.line_number.just
  THEN Key("lineNumber") \o Num(message.line_number.value) \o <<",">>
  ELSE <<>>

\* a slip that nests the start column under the line number
StartColumnJSON_NeedsLine(message) ==
  IF message.line_number.just /\ message.start_column.just
  THEN Key("startColumn") \o Num(message.start_column.value) \o <<",">>
  ELSE <<>>

\* the stream start_column
StartColumnJSON(message) ==
  IF message.start_column.just
  THEN Key("startColumn") \o Num(message.start_column.value) \o <<",">>
  ELSE <<>>

\* the stream end_column
EndColumnJSON(message) ==
  IF message.end_column.just
  THEN Key("endColumn") \o Num(message.end_column.value) \o <<",">>
  ELSE <<>>

\* GetScriptNameOrSourceURL, "<unknown>" when it is empty
FrameScriptName(frame) ==
  IF frame.script_name.empty THEN <<"<unknown>">> ELSE frame.script_name.str

\* one pass of the loop body: the object of frame i
FrameJSON(frame) ==
  <<"{", WS>> \o Key("line") \o Num(frame.line) \o <<",", WS>>
    \o Key("column") \o Num(frame.column) \o <<",", WS>>
    \o Key("functionName") \o <<Q>> \o frame.function_name \o <<Q, ",", WS>>
    \o Key("scriptName") \o <<Q>> \o FrameScriptName(frame) \o <<Q, ",", WS>>
    \o Key("isEval") \o Bool(frame.is_eval) \o <<",", WS>>
    \o Key("isConstructor") \o Bool(frame.is_constructor) \o <<",", WS>>
    \o Key("isWasm") \o Bool(frame.is_wasm) \o <<WS, "}">>

\* for (i = 0; i < count; ++i), indices from 1: a comma after every frame
\* but the last
RECURSIVE FramesLoop(_, _)
FramesLoop(frames, i) ==
  IF i > Len(frames) THEN <<>>
  ELSE FrameJSON(frames[i])
         \o (IF i < Len(frames) THEN <<",">> ELSE <<>>)
         \o FramesLoop(frames, i + 1)

\* the stream line of the else branch; v is what FromJust returned
FallbackLine(message, v) ==
  IF ~message.line_number.just
  THEN Key("line") \o Num(v) \o <<",">>
  ELSE <<>>

\* the stream column of the else branch
FallbackColumn(message, v) ==
  IF ~message.start_column.just
  THEN Key("column") \o Num(v) \o <<",">>
  ELSE <<>>

\* the else branch: one frame made of the message's own position
FallbackFrames(message, l, c) ==
  <<"[", "{">> \o FallbackLine(message, l) \o FallbackColumn(message, c)
    \o Key("scriptName") \o <<Q>> \o JSONStringify(message.script_resource_name)
    \o <<Q, WS, "}", "]">>

\* what FromJust is asked for in the else branch: nothing when the guard
\* skips the call
FallbackFromJust(m) == IF ~m.just THEN FromJust(m) ELSE {Value(0)}

StrResult(s) == [abort |-> FALSE, str |-> s]
AbortResult == [abort |-> TRUE, str |-> <<>>]

\* the stream stack_trace_json, one outcome per outcome of FromJust
StackTraceJSON(message) ==
  IF ~message.stack_trace.empty
  THEN {StrResult(<<"[">> \o FramesLoop(message.stack_trace.frames, 1) \o <<"]">>)}
  ELSE {IF l.abort \/ c.abort THEN AbortResult
        ELSE StrResult(FallbackFrames(message, l.value, c.value)) :
          l \in FallbackFromJust(message.line_number),
          c \in FallbackFromJust(message.start_column)}

\* the stream result, given the frames
ResultJSON(message, frames) ==
  <<"{", WS>> \o Key("message") \o <<Q>> \o message.text \o <<Q, ",", WS>>
    \o Key("scriptResourceName") \o <<Q>> \o Utf8Value(message.script_resource_name)
    \o <<Q, ",", WS>>
    \o Key("startPosition") \o Num(message.start_position) \o <<",", WS>>
    \o Key("endPosition") \o Num(message.end_position) \o <<",", WS>>
    \o Key("errorLevel") \o Num(message.error_level) \o <<",", WS>>
    \o Key("isSharedCrossOrigin") \o Bool(message.is_shared_cross_origin) \o <<",", WS>>
    \o Key("isOpaque") \o Bool(message.is_opaque) \o <<",">>
    \o SourceLineJSON(message)
    \o LineNumberJSON(message)
    \o StartColumnJSON(message)
    \o EndColumnJSON(message)
    \o Key("frames") \o frames
    \o <<"}">>

\* the outcomes of EncodeMessageAsJSON(context, message)
EncodeMessageAsJSON(message) ==
  {IF f.abort THEN AbortResult ELSE StrResult(ResultJSON(message, f.str)) :
     f \in StackTraceJSON(message)}

\* ------------------------------------------------------- reading JSON
\* A reader of JSON text (RFC 8259) over the lexical units, used to state
\* what the host that parses the report sees.
NumberRange == (0 - 1)..(MaxInt + 8)
NumberTokens == {ToString(n) : n \in NumberRange}

JValue(type, str, keys, items) ==
  [type |-> type, str |-> str, keys |-> keys, items |-> items]
JFail == [ok |-> FALSE, next |-> 0, val |-> JValue("none", <<>>, <<>>, <<>>)]
JOk(next, val) == [ok |-> TRUE, next |-> next, val |-> val]

RECURSIVE SkipWS(_, _)
SkipWS(s, i) == IF i <= Len(s) /\ s[i] = WS THEN SkipWS(s, i + 1) ELSE i

\* the characters of a string from i on, up to the closing quote; a
\* backslash must start an escape sequence
RECURSIVE ScanString(_, _, _)
ScanString(s, i, acc) ==
  IF i > Len(s) THEN JFail
  ELSE IF s[i] = Q THEN JOk(i + 1, JValue("string", acc, <<>>, <<>>))
  ELSE IF s[i] = BS
       THEN IF i + 1 <= Len(s) /\ s[i + 1] \in {Q, BS}
            THEN ScanString(s, i + 2, Append(acc, s[i + 1]))
            ELSE JFail
  ELSE ScanString(s, i + 1, Append(acc, s[i]))

RECURSIVE ParseValue(_, _)
RECURSIVE ParseMembers(_, _, _, _)
RECURSIVE ParseElements(_, _, _)

\* the members of an object from i on, after "{" or ","
ParseMembers(s, i, keys, items) ==
  LET k == SkipWS(s, i)
  IN  IF k > Len(s) \/ s[k] # Q THEN JFail
      ELSE LET name == ScanString(s, k + 1, <<>>)
           IN  IF ~name.ok THEN JFail
               ELSE LET c == SkipWS(s, name.next)
                    IN  IF c > Len(s) \/ s[c] # ":" THEN JFail
                        ELSE LET v == ParseValue(s, c + 1)
                             IN  IF ~v.ok THEN JFail
                                 ELSE LET e == SkipWS(s, v.next)
                                          ks == Append(keys, name.val.str)
                                          is == Append(items, v.val)
                                      IN  IF e > Len(s) THEN JFail
                                          ELSE IF s[e] = "}"
                                          THEN JOk(e + 1, JValue("object", <<>>, ks, is))
                                          ELSE IF s[e] = ","
                                          THEN ParseMembers(s, e + 1, ks, is)
                                          ELSE JFail

\* the elements of an array from i on, after "[" or ","
ParseElements(s, i, items) ==
  LET v == ParseValue(s, i)
  IN  IF ~v.ok THEN JFail
      ELSE LET e == SkipWS(s, v.next)
               is == Append(items, v.val)
           IN  IF e > Len(s) THEN JFail
               ELSE IF s[e] = "]" THEN JOk(e + 1, JValue("array", <<>>, <<>>, is))
               ELSE IF s[e] = "," THEN ParseElements(s, e + 1, is)
               ELSE JFail

ParseValue(s, i) ==
  LET k == SkipWS(s, i)
  IN  IF k > Len(s) THEN JFail
      ELSE IF s[k] = Q THEN ScanString(s, k + 1, <<>>)
      ELSE IF s[k] \in NumberTokens
      THEN JOk(k + 1, JValue("number", <<s[k]>>, <<>>, <<>>))
      ELSE IF s[k] \in {"true", "false"}
      THEN JOk(k + 1, JValue("boolean", <<s[k]>>, <<>>, <<>>))
      ELSE IF s[k] = "{"
      THEN LET m == SkipWS(s, k + 1)
           IN  IF m <= Len(s) /\ s[m] = "}"
               THEN JOk(m + 1, JValue("object", <<>>, <<>>, <<>>))
               ELSE ParseMembers(s, k + 1, <<>>, <<>>)
      ELSE IF s[k] = "["
      THEN LET m == SkipWS(s, k + 1)
           IN  IF m <= Len(s) /\ s[m] = "]"
               THEN JOk(m + 1, JValue("array", <<>>, <<>>, <<>>))
               ELSE ParseElements(s, k + 1, <<>>)
      ELSE JFail

\* the whole text is one JSON value
ParseJSON(s) ==
  LET v == ParseValue(s, 1)
  IN  IF v.ok /\ SkipWS(s, v.next) = Len(s) + 1 THEN v ELSE JFail

HasKey(obj, k) == \E i \in 1..Len(obj.keys) : obj.keys[i] = <<k>>
Field(obj, k) ==
  obj.items[CHOOSE i \in 1..Len(obj.keys) :
              /\ obj.keys[i] = <<k>>
              /\ \A j \in 1..(i - 1) : obj.keys[j] # <<k>>]

Required(obj, k, type) == HasKey(obj, k) /\ Field(obj, k).type = type
Optional(obj, k, type) == HasKey(obj, k) => Field(obj, k).type = type

\* a frame of the schema: a captured frame, or the fallback frame that
\* has line and column optional
FrameConforms(f) ==
  /\ f.type = "object"
  /\ Optional(f, "line", "number")
  /\ Optional(f, "column", "number")
  /\ Optional(f, "functionName", "string")
  /\ Required(f, "scriptName", "string")
  /\ Optional(f, "isEval", "boolean")
  /\ Optional(f, "isConstructor", "boolean")
  /\ Optional(f, "isWasm", "boolean")

\* the fixed schema of the report
ReportConforms(v) ==
  /\ v.type = "object"
  /\ Required(v, "message", "string")
  /\ Required(v, "scriptResourceName", "string")
  /\ Required(v, "startPosition", "number")
  /\ Required(v, "endPosition", "number")
  /\ Required(v, "errorLevel", "number")
  /\ Required(v, "isSharedCrossOrigin", "boolean")
  /\ Required(v, "isOpaque", "boolean")
  /\ Optional(v, "sourceLine", "string")
  /\ Optional(v, "lineNumber", "number")
  /\ Optional(v, "startColumn", "number")
  /\ Optional(v, "endColumn", "number")
  /\ Required(v, "frames", "array")
  /\ \A i \in 1..Len(Field(v, "frames").items) :
       FrameConforms(Field(v, "frames").items[i])

ValidReport(s) == ParseJSON(s).ok /\ ReportConforms(ParseJSON(s).val)

\* ---------------------------------------------------- what the engine gives
SomeFrames ==
  {[line |-> MaxInt, column |-> 0, function_name |-> <<"a">>,
    script_name |-> Handle(<<"a">>), is_eval |-> FALSE,
    is_constructor |-> TRUE, is_wasm |-> FALSE],
   [line |-> 0, column |-> MaxInt, function_name |-> <<>>,
    script_name |-> EmptyHandle, is_eval |-> TRUE,
    is_constructor |-> FALSE, is_wasm |-> TRUE]}

RECURSIVE FrameSeqsUpTo(_)
FrameSeqsUpTo(n) ==
  IF n = 0 THEN {<<>>}
  ELSE LET shorter == FrameSeqsUpTo(n - 1)
       IN  shorter \cup {Append(t, f) : t \in shorter, f \in SomeFrames}

\* message->GetStackTrace(): an empty handle, or a trace of 0..MaxFrames frames
NoStackTrace == [empty |-> TRUE, frames |-> <<>>]
StackTrace(frames) == [empty |-> FALSE, frames |-> frames]
StackTraces == {NoStackTrace} \cup {StackTrace(t) : t \in FrameSeqsUpTo(MaxFrames)}

\* a v8::Message as the getters of EncodeMessageAsJSON see it
Messages ==
  [text : Texts,
   script_resource_name : {UndefinedName, StringName(<<"a">>)},
   start_position : {0 - 1},
   end_position : {MaxInt},
   error_level : {8},
   is_shared_cross_origin : BOOLEAN,
   is_opaque : BOOLEAN,
   source_line : {EmptyHandle, Handle(<<"a">>), Handle(<<"a", Q>>)},
   line_number : MaybeInts,
   start_column : {Nothing, Just(0)},
   end_column : {Nothing, Just(MaxInt)},
   stack_trace : StackTraces]

\* the messages of the events the dispatcher sees
EventTexts == TextsUpTo(MaxEventLen)
EventMessages ==
  [text : EventTexts,
   script_resource_name : {StringName(<<"a">>)},
   start_position : {0 - 1},
   end_position : {MaxInt},
   error_level : {8},
   is_shared_cross_origin : {FALSE},
   is_opaque : {FALSE},
   source_line : {EmptyHandle},
   line_number : {Nothing, Just(MaxInt)},
   start_column : {Just(0)},
   end_column : {Nothing},
   stack_trace : {NoStackTrace, StackTrace(<<>>)}]

\* a thrown v8::Value: null, undefined, or an Error object with a message
NullValue == [kind |-> "null", text |-> <<>>]
UndefinedValue == [kind |-> "undefined", text |-> <<>>]
ExceptionError(t) == [kind |-> "error", text |-> t]
IsNullOrUndefined(exception) == exception.kind \in {"null", "undefined"}

TerminatedText == <<"execution", WS, "terminated">>

ExceptionValues ==
  {NullValue, UndefinedValue, ExceptionError(TerminatedText)}
    \cup {ExceptionError(t) : t \in EventTexts}

\* ToString of the thrown value, as the engine renders it in a message
ExceptionToString(exception) ==
  IF exception.kind = "error" THEN <<"Error", ":", WS>> \o exception.text
  ELSE <<exception.kind>>

\* v8::Exception::CreateMessage: the engine's message for a thrown value,
\* "Uncaught " and the value's rendering, at the location the engine found
CreateMessage(exception, location) ==
  [location EXCEPT !.text = <<"Uncaught", WS>> \o ExceptionToString(exception)]

EncodeExceptionAsJSON(exception, location) ==
  EncodeMessageAsJSON(CreateMessage(exception, location))

\* the engine's choice of where a thrown value was raised
Locations == {m \in EventMessages : m.text = <<>>}

\* ------------------------------------------------------------ the state
VARIABLES
  terminating,      \* isolate->IsExecutionTerminating()
  last_exception_,  \* DenoIsolate::last_exception_
  aborted,          \* the process was ended by a failed API check
  event,            \* the last call of a handler: what it was given, what
                    \* it did, and the termination flag as it returned
  events,           \* the number of calls so far
  message,          \* the argument of a call of EncodeMessageAsJSON alone
  json_str          \* what that call returned

vars == <<terminating, last_exception_, aborted, event, events, message, json_str>>

NoMessage == [m \in {} |-> m]
NoEvent ==
  [op |-> "none", exception |-> NullValue, message |-> NoMessage,
   encoded |-> NoMessage, was_terminating |-> FALSE,
   still_terminating |-> FALSE, calls |-> 0,
   writes |-> 0, returned |-> FALSE, replaced |-> FALSE]
Pending == [done |-> FALSE, abort |-> FALSE, str |-> <<>>]
Done(o) == [done |-> TRUE, abort |-> o.abort, str |-> o.str]

\* ------------------------------------------------------- the dispatcher
\* The handlers act on the isolate m: its termination flag, its
\* last_exception_, and a count of the calls of HandleException and of the
\* writes of last_exception_ made for the event.
Isolate(t, l) ==
  [terminating |-> t, last_exception_ |-> l, aborted |-> FALSE,
   encoded |-> NoMessage, calls |-> 0, writes |-> 0]

CancelTerminateExecution(m) == [m EXCEPT !.terminating = FALSE]

\* a slip that leaves the termination cancelled
TerminateExecution_NoRearm(m) == m

TerminateExecution(m) == [m EXCEPT !.terminating = TRUE]

\* a slip that appends to the slot where the code assigns
StoreLastException_Append(m, str) ==
  [m EXCEPT !.last_exception_ = @ \o str, !.writes = @ + 1]

\* d->last_exception_ = json_str
StoreLastException(m, str) ==
  [m EXCEPT !.last_exception_ = str, !.writes = @ + 1]

\* the tail of both handlers: encode, then store; the API check that fails
\* inside the encoder ends the process before the store
Publish(m, msg) ==
  {IF o.abort THEN [m EXCEPT !.aborted = TRUE, !.encoded = msg]
   ELSE StoreLastException([m EXCEPT !.encoded = msg], o.str) :
     o \in EncodeMessageAsJSON(msg)}

\* a slip that replaces every exception thrown while terminating
MaybeNewException_Always(exception) == ExceptionError(TerminatedText)

\* "maybe make a new exception object"
MaybeNewException(exception) ==
  IF IsNullOrUndefined(exception)
  THEN ExceptionError(TerminatedText)
  ELSE exception

RECURSIVE HandleException(_, _, _)
HandleException(m, exception, location) ==
  LET entered == [m EXCEPT !.calls = @ + 1]
  IN  IF entered.terminating
      THEN LET cancelled == CancelTerminateExecution(entered)
           IN  {IF r.aborted THEN r ELSE TerminateExecution(r) :
                  r \in HandleException(cancelled, MaybeNewException(exception),
                                        location)}
      ELSE Publish(entered, CreateMessage(exception, location))

\* a slip that encodes the message whatever the termination state
HandleExceptionMessage_KeepMessage(m, msg, location) == Publish(m, msg)

HandleExceptionMessage(m, msg, location) ==
  IF m.terminating
  THEN HandleException(m, UndefinedValue, location)
  ELSE Publish(m, msg)

\* ----------------------------------------------------------- the actions
Init ==
  /\ terminating = FALSE
  /\ last_exception_ = <<>>
  /\ aborted = FALSE
  /\ event = NoEvent
  /\ events = 0
  /\ message = NoMessage
  /\ json_str = Pending

\* the record of a call that ended in isolate r
Record(op, exception, msg, r) ==
  [op |-> op, exception |-> exception, message |-> msg,
   encoded |-> r.encoded, was_terminating |-> terminating,
   still_terminating |-> r.terminating,
   calls |-> r.calls, writes |-> r.writes, returned |-> ~r.aborted,
   replaced |-> /\ ~r.aborted
                /\ last_exception_ # <<>>
                /\ last_exception_ # r.last_exception_]

Finish(op, exception, msg, r) ==
  /\ terminating' = r.terminating
  /\ last_exception_' = r.last_exception_
  /\ aborted' = r.aborted
  /\ event' = Record(op, exception, msg, r)
  /\ events' = events + 1
  /\ UNCHANGED <<message, json_str>>

\* the embedder asks the isolate to stop: TerminateExecution was called
TerminateExecutionCalled ==
  /\ ~aborted
  /\ ~terminating
  /\ terminating' = TRUE
  /\ UNCHANGED <<last_exception_, aborted, event, events, message, json_str>>

\* the engine hands a thrown value to HandleException
CallHandleException ==
  /\ ~aborted
  /\ events < MaxEvents
  /\ \E exception \in ExceptionValues, location \in Locations :
       \E r \in HandleException(Isolate(terminating, last_exception_),
                                exception, location) :
         Finish("HandleException", exception, NoMessage, r)

\* the engine hands a message to HandleExceptionMessage
CallHandleExceptionMessage ==
  /\ ~aborted
  /\ events < MaxEvents
  /\ \E msg \in EventMessages, location \in Locations :
       \E r \in HandleExceptionMessage(Isolate(terminating, last_exception_),
                                       msg, location) :
         Finish("HandleExceptionMessage", NullValue, msg, r)

Next ==
  \/ TerminateExecutionCalled
  \/ CallHandleException
  \/ CallHandleExceptionMessage

Spec == Init /\ [][Next]_vars

\* EncodeMessageAsJSON alone, on every message of Messages
InitEncode ==
  /\ terminating = FALSE
  /\ last_exception_ = <<>>
  /\ aborted = FALSE
  /\ event = NoEvent
  /\ events = 0
  /\ message \in Messages
  /\ json_str = Pending

CallEncodeMessageAsJSON ==
  /\ ~json_str.done
  /\ \E o \in EncodeMessageAsJSON(message) : json_str' = Done(o)
  /\ UNCHANGED <<terminating, last_exception_, aborted, event, events, message>>

NextEncode == CallEncodeMessageAsJSON

SpecEncode == InitEncode /\ [][NextEncode]_vars

\* ------------------------------------------------ reading a report's text
Range(t) == {t[i] : i \in 1..Len(t)}
HasPrefix(s, p) == Len(p) <= Len(s) /\ SubSeq(s, 1, Len(p)) = p
Contains(s, p) == \E i \in 1..(Len(s) - Len(p) + 1) : SubSeq(s, i, i + Len(p) - 1) = p

\* the report opens with the message field, up to its opening quote
MessageOpen == <<"{", WS, Q, "message", Q, ":", WS, Q>>
\* what follows the closing quote of the message field
MessageClose == <<",", WS, Q, "scriptResourceName", Q>>
\* the report's message field holds exactly the text t
HasMessageField(s, t) == HasPrefix(s, MessageOpen \o t \o <<Q>> \o MessageClose)

\* the key k occurs in the report; with the number v as its value
HasKeyText(s, k) == Contains(s, <<Q, k, Q, ":">>)
HasNumberText(s, k, v) == Contains(s, <<Q, k, Q, ":", WS, ToString(v), ",">>)

\* the number of frame objects in the report: every object but the report
FrameObjects(s) == Cardinality({i \in 1..Len(s) : s[i] = "{"}) - 1

UncaughtTerminated ==
  <<"Uncaught", WS, "Error", ":", WS, "execution", WS, "terminated">>

Encoded == json_str.done /\ ~json_str.abort
Returned(op) == event.op = op /\ event.returned

\* ------------------------------------------------------------ the claims

\* C1 (as stated): HandleException called while terminating with a null or
\* undefined exception publishes a report whose message field equals
\* "execution terminated", and termination is active when the call returns.
C1_MessageIsExecutionTerminated ==
  (Returned("HandleException") /\ event.was_terminating
     /\ IsNullOrUndefined(event.exception))
  => (HasMessageField(last_exception_, TerminatedText) /\ event.still_terminating)

\* C1 (amended): in that case the report's message field is the engine's
\* rendering of the synthetic error, "Uncaught Error: execution terminated",
\* and termination is active when the call returns.
C1_MessageIsUncaughtTerminated ==
  (Returned("HandleException") /\ event.was_terminating
     /\ IsNullOrUndefined(event.exception))
  => (HasMessageField(last_exception_, UncaughtTerminated) /\ event.still_terminating)

C1_Witness ==
  /\ Returned("HandleException")
  /\ event.was_terminating
  /\ event.exception = NullValue
  /\ event.still_terminating
  /\ HasMessageField(last_exception_, UncaughtTerminated)

\* C2: HandleException called while terminating with a concrete exception
\* publishes the report of that value, not of the synthetic error, and
\* termination is active when the call returns.
C2_ConcreteExceptionKept ==
  (Returned("HandleException") /\ event.was_terminating
     /\ ~IsNullOrUndefined(event.exception))
  => /\ HasMessageField(last_exception_,
                        <<"Uncaught", WS, "Error", ":", WS>> \o event.exception.text)
     /\ event.exception.text # TerminatedText
          => ~HasMessageField(last_exception_, UncaughtTerminated)
     /\ event.still_terminating

C2_Witness ==
  /\ Returned("HandleException")
  /\ event.was_terminating
  /\ event.exception = ExceptionError(<<"a">>)
  /\ event.still_terminating
  /\ HasMessageField(last_exception_, <<"Uncaught", WS, "Error", ":", WS, "a">>)

\* C3: the frames array of a report is never empty: one fallback frame when
\* the stack trace is unavailable or has no frames, else one frame per
\* captured frame.
C3_FramesNeverEmpty ==
  Encoded
  => FrameObjects(json_str.str) =
       (IF message.stack_trace.empty \/ Len(message.stack_trace.frames) = 0
        THEN 1
        ELSE Len(message.stack_trace.frames))

\* C4: the text EncodeMessageAsJSON returns is valid JSON of the fixed
\* schema, the fallback frame included.
C4_ValidJSON == Encoded => ValidReport(json_str.str)

\* C5: each of sourceLine, lineNumber, startColumn and endColumn is in the
\* report exactly when the engine resolved that field, whatever the other
\* three, and the numbers are the resolved ones.
C5_OptionalKeysIndependent ==
  Encoded
  => /\ HasKeyText(json_str.str, "sourceLine") <=> ~message.source_line.empty
     /\ HasKeyText(json_str.str, "lineNumber") <=> message.line_number.just
     /\ HasKeyText(json_str.str, "startColumn") <=> message.start_column.just
     /\ HasKeyText(json_str.str, "endColumn") <=> message.end_column.just
     /\ message.line_number.just
          => HasNumberText(json_str.str, "lineNumber", message.line_number.value)
     /\ message.start_column.just
          => HasNumberText(json_str.str, "startColumn", message.start_column.value)
     /\ message.end_column.just
          => HasNumberText(json_str.str, "endColumn", message.end_column.value)

C5_Witness ==
  /\ Encoded
  /\ ~message.line_number.just
  /\ message.start_column.just
  /\ HasKeyText(json_str.str, "startColumn")
  /\ ~HasKeyText(json_str.str, "lineNumber")

\* C6: without a stack trace, the fallback frame has the key line exactly
\* when lineNumber was resolved, with that value, the key column exactly
\* when startColumn was resolved, with that value, and always scriptName.
C6_FallbackFrameKeys ==
  (Encoded /\ message.stack_trace.empty)
  => /\ HasKeyText(json_str.str, "line") <=> message.line_number.just
     /\ HasKeyText(json_str.str, "column") <=> message.start_column.just
     /\ message.line_number.just
          => HasNumberText(json_str.str, "line", message.line_number.value)
     /\ message.start_column.just
          => HasNumberText(json_str.str, "column", message.start_column.value)
     /\ HasKeyText(json_str.str, "scriptName")

\* C7: a double quote in the message text is escaped in the report, so that
\* the message field reads back as that text and the next key follows it.
C7_MessageQuoteEscaped ==
  (Encoded /\ Q \in Range(message.text) /\ BS \notin Range(message.text))
  => LET field == ScanString(json_str.str, Len(MessageOpen) + 1, <<>>)
     IN  /\ field.ok
         /\ field.val.str = message.text
         /\ SubSeq(json_str.str, field.next, field.next + Len(MessageClose) - 1)
              = MessageClose

\* the message text of the report an event is to publish
EventText ==
  IF event.op = "HandleException"
  THEN IF event.was_terminating /\ IsNullOrUndefined(event.exception)
       THEN UncaughtTerminated
       ELSE <<"Uncaught", WS>> \o ExceptionToString(event.exception)
  ELSE IF event.was_terminating THEN UncaughtTerminated ELSE event.message.text

\* C8: a call of either handler that returns leaves in last_exception_ the
\* report of that event and nothing else, whatever the slot held before.
C8_SlotHoldsLastReport ==
  (event.op # "none" /\ event.returned)
  => /\ event.encoded.text = EventText
     /\ last_exception_ \in
          {o.str : o \in {x \in EncodeMessageAsJSON(event.encoded) : ~x.abort}}
     /\ HasMessageField(last_exception_, EventText)

C8_Witness ==
  /\ events = 2
  /\ event.returned
  /\ event.replaced
  /\ HasMessageField(last_exception_, EventText)

\* C9: HandleExceptionMessage called while terminating publishes the
\* synthetic report, with nothing of the message it was given, and leaves
\* termination active; called while not terminating it publishes the report
\* of the message and leaves termination inactive.
C9_MessageDiscardedWhenTerminating ==
  Returned("HandleExceptionMessage")
  => IF event.was_terminating
     THEN /\ HasMessageField(last_exception_, UncaughtTerminated)
          /\ ~HasMessageField(last_exception_, event.message.text)
          /\ \E location \in Locations :
               last_exception_ \in
                 {o.str : o \in EncodeExceptionAsJSON(
                                  ExceptionError(TerminatedText), location)}
          /\ event.still_terminating
     ELSE /\ HasMessageField(last_exception_, event.message.text)
          /\ last_exception_ \in
               {o.str : o \in EncodeMessageAsJSON(event.message)}
          /\ ~event.still_terminating

C9_Witness ==
  /\ Returned("HandleExceptionMessage")
  /\ event.was_terminating
  /\ event.message.text = <<"a">>
  /\ event.still_terminating
  /\ HasMessageField(last_exception_, UncaughtTerminated)

\* C10: every call of HandleException returns, having entered
\* HandleException at most twice (the call and one recursive call) and
\* having written last_exception_ exactly once.
C10_ReturnsAfterOneWrite ==
  event.op = "HandleException"
  => /\ event.returned
     /\ event.calls <= 2
     /\ event.writes = 1

====
